---- MODULE Spec2Model ----
(***************************************************************************)
(* DNS TSIG support (libs/dns/tsig.py): sign, validate, the algorithm      *)
(* registry (_hashes, get_algorithm) and get_algorithm_and_mac.            *)
(*                                                                         *)
(* Octet strings are sequences of octets.  A plain octet b is the tuple    *)
(* <<b>>.  An octet of an HMAC digest is the tuple <<i, mod, key, fed>>:   *)
(* the i-th octet of the digest, under digest primitive mod and key, of    *)
(* the octets fed.  The digest provider is thus a collision-free keyed     *)
(* function, and two MACs are equal exactly when primitive, key and the    *)
(* octets fed are equal.                                                   *)
(*                                                                         *)
(* Python integers are unbounded.  A time value is kept exactly as the     *)
(* record [a, b, c] = a * 2^32 + b * 2^16 + c with b, c in 0..65535 and a  *)
(* any integer.                                                            *)
(***************************************************************************)
EXTENDS Integers, Sequences, FiniteSets, TLC

VARIABLES pc, _hashes, env, inp, ctx, sres, inp2, sres2, msg, tamper, vin, vres, pres,
          thr, populated

vars == <<pc, _hashes, env, inp, ctx, sres, inp2, sres2, msg, tamper, vin, vres, pres,
          thr, populated>>

\* ---------------------------------------------------------------- bounds

\* Octets of a digest (the provider's digest_size, scaled down).
DigestLen == 2
\* Threads calling get_algorithm concurrently.
NumThreads == 2
\* Calls each thread makes.
MaxCalls == 2

\* ---------------------------------------------------------------- octets

Min(a, b) == IF a < b THEN a ELSE b
Max(a, b) == IF a < b THEN b ELSE a

B(n) == <<n>>
Bytes(s) == [i \in 1..Len(s) |-> B(s[i])]

\* The numeric value of an octet; a digest octet has some value in 0..255.
Val(o) == IF Len(o) = 1 THEN o[1] ELSE (o[1] * 37 + Len(o[4]) * 11) % 256

\* Python's w[a:b] for 0 <= a, 0 <= b: lenient at the end of w.
Slice(w, a, b) == SubSeq(w, a + 1, Min(b, Len(w)))
\* Python's w[a:].
SliceFrom(w, a) == SubSeq(w, a + 1, Len(w))

\* struct.pack('!H', n) for n in range; PackOK16 is the range check.
PackOK16(n) == n >= 0 /\ n <= 65535
Pack16(n) == <<B(n \div 256), B(n % 256)>>
\* struct.unpack('!H', s) for a 2-octet s.
Unpack16(s) == Val(s[1]) * 256 + Val(s[2])

\* ---------------------------------------------------------------- names

\* bytes.lower() on one octet value, as dns.name does for the digestable form.
LowerChar(c) == IF c >= 65 /\ c <= 90 THEN c + 32 ELSE c
LowerLabel(l) == [i \in 1..Len(l) |-> LowerChar(l[i])]
LowerLabels(ls) == [i \in 1..Len(ls) |-> LowerLabel(ls[i])]

RECURSIVE SplitDots(_, _)
\* The labels of a text name: the runs between dots (46), in order.
SplitDots(text, acc) ==
    IF text = <<>> THEN <<acc>>
    ELSE IF Head(text) = 46 THEN <<acc>> \o SplitDots(Tail(text), <<>>)
    ELSE SplitDots(Tail(text), Append(acc, Head(text)))

\* dns.name.from_text(text): the labels, made absolute with the root label.
Absolute(ls) == IF ls[Len(ls)] = <<>> THEN ls ELSE Append(ls, <<>>)
from_text(text) == Absolute(SplitDots(text, <<>>))

RECURSIVE WireLabels(_)
WireLabels(ls) ==
    IF ls = <<>> THEN <<>>
    ELSE <<B(Len(Head(ls)))>> \o Bytes(Head(ls)) \o WireLabels(Tail(ls))

\* Name.to_digestable(): the uncompressed wire form of the lowercased name.
to_digestable(name) == WireLabels(LowerLabels(name))

RECURSIVE WireName(_, _, _)
\* dns.name.from_wire(message, current), uncompressed names: labels is the
\* name read so far, used the octets consumed.  A label octet of 64 or more
\* (a compression pointer or an unknown label type) and the end of the buffer
\* are the two failures.
WireName(message, current, acc) ==
    IF current >= Len(message) THEN [exc |-> "IndexError", name |-> <<>>, used |-> 0]
    ELSE LET count == Val(message[current + 1])
         IN IF count = 0
              THEN [exc |-> "none", name |-> Append(acc.name, <<>>), used |-> acc.used + 1]
            ELSE IF count >= 64
              THEN [exc |-> "FormError", name |-> <<>>, used |-> 0]
            ELSE IF current + 1 + count > Len(message)
              THEN [exc |-> "IndexError", name |-> <<>>, used |-> 0]
            ELSE WireName(message, current + 1 + count,
                          [name |-> Append(acc.name,
                                [i \in 1..count |-> Val(message[current + 1 + i])]),
                           used |-> acc.used + 1 + count])

from_wire(message, current) == WireName(message, current, [name |-> <<>>, used |-> 0])

\* ---------------------------------------------------------------- algorithms

HMAC_MD5 == from_text(<<72,77,65,67,45,77,68,53,46,83,73,71,45,65,76,71,46,82,69,71,46,73,78,84>>)
HMAC_SHA1 == from_text(<<104,109,97,99,45,115,104,97,49>>)
HMAC_SHA224 == from_text(<<104,109,97,99,45,115,104,97,50,50,52>>)
HMAC_SHA256 == from_text(<<104,109,97,99,45,115,104,97,50,53,54>>)
HMAC_SHA384 == from_text(<<104,109,97,99,45,115,104,97,51,56,52>>)
HMAC_SHA512 == from_text(<<104,109,97,99,45,115,104,97,53,49,50>>)

default_algorithm == HMAC_MD5

BADSIG == 16
BADKEY == 17
BADTIME == 18
BADTRUNC == 22

\* The order in which _setup_hashes probes the provider.
SetupOrder ==
    << <<HMAC_SHA224, "SHA224">>, <<HMAC_SHA256, "SHA256">>, <<HMAC_SHA384, "SHA384">>,
       <<HMAC_SHA512, "SHA512">>, <<HMAC_SHA1, "SHA1">>, <<HMAC_MD5, "MD5">> >>

\* An algorithm identifier: a text (str/unicode) or a dns.name.Name.
TextAlg(t) == [text |-> TRUE, val |-> t]
NameAlg(n) == [text |-> FALSE, val |-> n]

\* _hashes: None, or a dict keyed by names (names compare and hash without
\* regard to case, so the key is the lowercased name).
HashesNone == [none |-> TRUE, d |-> {}]
HashesDict(d) == [none |-> FALSE, d |-> d]

DictHas(h, name) == \E e \in h.d : e[1] = LowerLabels(name)
DictGet(h, name) == (CHOOSE e \in h.d : e[1] = LowerLabels(name))[2]
DictPut(h, name, v) ==
    HashesDict({e \in h.d : e[1] # LowerLabels(name)} \cup {<<LowerLabels(name), v>>})

\* _maybe_add_hash(tsig_alg, hash_alg) against the provider's digests:
\* dns.hash.get raises KeyError for a digest the provider lacks.
_maybe_add_hash(h, provider, tsig_alg, hash_alg) ==
    IF hash_alg \in provider THEN DictPut(h, tsig_alg, hash_alg) ELSE h

RECURSIVE AddFrom(_, _, _)
AddFrom(h, provider, i) ==
    IF i > Len(SetupOrder) THEN h
    ELSE AddFrom(_maybe_add_hash(h, provider, SetupOrder[i][1], SetupOrder[i][2]),
                 provider, i + 1)

\* _setup_hashes() run to its end by one caller alone.
_setup_hashes(provider) == AddFrom(HashesDict({}), provider, 1)

LookupName(h, e, name) ==
       IF e.oldPython /\ LowerLabels(name) \in {LowerLabels(HMAC_SHA384), LowerLabels(HMAC_SHA512)}
         THEN [exc |-> "NotImplementedError", name |-> <<>>, mod |-> ""]
       ELSE IF DictHas(h, name)
         THEN [exc |-> "none", name |-> to_digestable(name), mod |-> DictGet(h, name)]
       ELSE [exc |-> "NotImplementedError", name |-> <<>>, mod |-> ""]

\* Lines 211-223: the lookup half of get_algorithm, on a registry that is not None.
Lookup(h, e, algorithm) ==
    LookupName(h, e, IF algorithm.text THEN from_text(algorithm.val) ELSE algorithm.val)

\* get_algorithm(algorithm) called by one caller alone: the registry after
\* the call, and the (wire name, digest primitive) pair or the exception.
Resolved(h2, e, algorithm) == [hashes |-> h2, r |-> Lookup(h2, e, algorithm)]
get_algorithm(h, e, algorithm) ==
    Resolved(IF h.none THEN _setup_hashes(e.provider) ELSE h, e, algorithm)

AllDigests == {"MD5", "SHA1", "SHA224", "SHA256", "SHA384", "SHA512"}

\* The algorithm identifiers callers pass: names, texts, and one the registry
\* never holds.
HMAC_NONE == from_text(<<104,109,97,99,45,120>>)
TEXT_SHA256 == <<72,77,65,67,45,83,72,65,50,53,54,46>>
AlgIds == {NameAlg(HMAC_MD5), NameAlg(HMAC_SHA256), NameAlg(HMAC_SHA512),
           TextAlg(TEXT_SHA256), NameAlg(HMAC_NONE)}

Pending == [exc |-> "pending", name |-> <<>>, mod |-> ""]

NoInp == [none |-> TRUE]

\* ---------------------------------------------------------------- time

\* The integer a * 2^32 + b * 2^16 + c, normalised to b, c in 0..65535.
Norm(a, b, c) ==
    [a |-> a + ((b + (c \div 65536)) \div 65536), b |-> (b + (c \div 65536)) % 65536,
     c |-> c % 65536]
\* t + n and t - n for an integer t and a small integer n.
BigAdd(t, n) == Norm(t.a, t.b, t.c + n)
BigSub(t, n) == Norm(t.a, t.b, t.c - n)
BigLess(x, y) ==
    \/ x.a < y.a
    \/ x.a = y.a /\ x.b < y.b
    \/ x.a = y.a /\ x.b = y.b /\ x.c < y.c

\* ---------------------------------------------------------------- hmac

\* dns.rdataclass.ANY
ANY == 255

NoneCtx == [open |-> FALSE, key |-> <<>>, mod |-> "", fed |-> <<>>]
\* hmac.new(secret, digestmod=digestmod)
hmac_new(secret, digestmod) == [open |-> TRUE, key |-> secret, mod |-> digestmod, fed |-> <<>>]
\* ctx.update(s)
update(c, s) == [c EXCEPT !.fed = @ \o s]
\* ctx.digest()
digest(c) == [i \in 1..DigestLen |-> <<i, c.mod, c.key, c.fed>>]

\* ---------------------------------------------------------------- sign

\* The result of a sign call: the exception raised ("none": it returned), the
\* returned (tsig_rdata, mac, ctx), arg: the state in which the call leaves the
\* context object it was passed, hctx: the context as digested, and the
\* registry after the call.
SignFail(x, argctx, h) ==
    [exc |-> x, tsig_rdata |-> <<>>, mac |-> <<>>, ctx |-> NoneCtx, arg |-> argctx,
     hctx |-> NoneCtx, hashes |-> h]

\* Lines 83-88: the context the message is fed to.
OpenCtx(a, digestmod) ==
    IF a.first
      THEN IF Len(a.request_mac) > 0
             THEN update(update(hmac_new(a.secret, digestmod), Pack16(Len(a.request_mac))),
                         a.request_mac)
             ELSE hmac_new(a.secret, digestmod)
      ELSE a.ctx

\* The original id, then the message after its header.
FeedMessageBody(a, c) == update(update(c, Pack16(a.original_id)), SliceFrom(a.wire, 12))

\* Lines 89-91: the original id, then the message from offset 2.
FeedMessage(a, c) == update(update(c, Pack16(a.original_id)), SliceFrom(a.wire, 2))

\* Lines 92-95: on a first message, the key name, class ANY and TTL 0.
FeedKey(a, c) ==
    IF a.first
      THEN update(update(update(c, to_digestable(a.keyname)), Pack16(ANY)),
                  Pack16(0) \o Pack16(0))
      ELSE c

\* Lines 96-99: struct.pack('!HIH', upper_time, lower_time, fudge).
TimeMac(a) ==
    Pack16(a.time.a % 65536) \o Pack16(a.time.b) \o Pack16(a.time.c) \o Pack16(a.fudge)
\* Line 100.
PreMac(a, algorithm_name) == algorithm_name \o TimeMac(a)
\* Line 104.
PostMac(a) == Pack16(a.error) \o Pack16(Len(a.other_data)) \o a.other_data

\* The length check off by one.
OtherTooLongOffByOne(ol) == ol > 65536

\* The continuation branch feeding what a first message feeds.
FeedFieldsAlways(a, c, algorithm_name) ==
    update(update(c, PreMac(a, algorithm_name)), PostMac(a))

\* Line 102: the length check of other_data.
OtherTooLong(ol) == ol > 65535

\* Lines 105-109: what is fed after the message.
FeedFields(a, c, algorithm_name) ==
    IF a.first THEN update(update(c, PreMac(a, algorithm_name)), PostMac(a))
    ELSE update(c, TimeMac(a))

\* Lines 113-119: the context returned.
NextCtx(a, digestmod, mac) ==
    IF a.multi THEN update(update(hmac_new(a.secret, digestmod), Pack16(Len(mac))), mac)
    ELSE NoneCtx

\* Lines 110-120.
SignReturn(a, g, c3, mac) ==
    [exc |-> "none",
     tsig_rdata |-> PreMac(a, g.r.name) \o Pack16(Len(mac)) \o mac
                      \o Pack16(a.original_id) \o PostMac(a),
     mac |-> mac,
     ctx |-> NextCtx(a, g.r.mod, mac),
     arg |-> IF a.first THEN a.ctx ELSE c3,
     hctx |-> c3,
     hashes |-> g.hashes]

SignDigest(a, g, c3) == SignReturn(a, g, c3, digest(c3))

\* Lines 96-109, on the context c2 the message and key have been fed to.
SignFields(a, g, c2) ==
    IF ~PackOK16(a.fudge)
      THEN SignFail("struct.error", IF a.first THEN a.ctx ELSE c2, g.hashes)
    ELSE IF OtherTooLong(Len(a.other_data))
      THEN SignFail("ValueError", IF a.first THEN a.ctx ELSE c2, g.hashes)
    ELSE IF ~PackOK16(a.error) \/ ~PackOK16(Len(a.other_data))
      THEN SignFail("struct.error", IF a.first THEN a.ctx ELSE c2, g.hashes)
    ELSE SignDigest(a, g, FeedFields(a, c2, g.r.name))

\* Lines 89-95, on the context c0 of lines 83-88.
SignMessage(a, g, c0) ==
    IF ~PackOK16(a.original_id) THEN SignFail("struct.error", a.ctx, g.hashes)
    ELSE IF ~c0.open THEN SignFail("AttributeError", a.ctx, g.hashes)
    ELSE SignFields(a, g, FeedKey(a, FeedMessage(a, c0)))

SignWith(a, g) ==
    IF g.r.exc # "none" THEN SignFail(g.r.exc, a.ctx, g.hashes)
    ELSE SignMessage(a, g, OpenCtx(a, g.r.mod))

\* sign(wire, keyname, secret, time, fudge, original_id, error, other_data,
\* request_mac, ctx, multi, first, algorithm), the arguments in the record a,
\* with the registry h and the environment e.
sign(h, e, a) == SignWith(a, get_algorithm(h, e, a.algorithm))

\* ---------------------------------------------------------------- validate

\* The fields read from a TSIG record, in order (lines 143-156 of validate, and
\* lines 229-236 of get_algorithm_and_mac up to the MAC).  exc is the exception
\* the reads raise; current is the offset after the last field read.
ParseFail(x) ==
    [exc |-> x, aname |-> <<>>, time |-> [a |-> 0, b |-> 0, c |-> 0], fudge |-> 0,
     mac_size |-> 0, mac |-> <<>>, original_id |-> 0, error |-> 0, other_data |-> <<>>,
     current |-> 0]

\* Lines 152-156.
ParseTail(wire, p, tail) ==
    IF Len(tail) # 6 THEN ParseFail("struct.error")
    ELSE [p EXCEPT !.original_id = Unpack16(SubSeq(tail, 1, 2)),
                   !.error = Unpack16(SubSeq(tail, 3, 4)),
                   !.other_data = Slice(wire, p.current + 6,
                                        p.current + 6 + Unpack16(SubSeq(tail, 5, 6))),
                   !.current = p.current + 6 + Unpack16(SubSeq(tail, 5, 6))]

\* Lines 146-151 (and 232-236).
ParseFixed(wire, aname, cur, fixed) ==
    IF Len(fixed) # 10 THEN ParseFail("struct.error")
    ELSE [exc |-> "none", aname |-> aname,
          time |-> [a |-> Unpack16(SubSeq(fixed, 1, 2)), b |-> Unpack16(SubSeq(fixed, 3, 4)),
                    c |-> Unpack16(SubSeq(fixed, 5, 6))],
          fudge |-> Unpack16(SubSeq(fixed, 7, 8)),
          mac_size |-> Unpack16(SubSeq(fixed, 9, 10)),
          mac |-> Slice(wire, cur + 10, cur + 10 + Unpack16(SubSeq(fixed, 9, 10))),
          original_id |-> 0, error |-> 0, other_data |-> <<>>,
          current |-> cur + 10 + Unpack16(SubSeq(fixed, 9, 10))]

\* Lines 143-151 (and 229-236): the algorithm name, time, fudge and MAC.
ParseNamed(wire, tsig_rdata, n) ==
    IF n.exc # "none" THEN ParseFail(n.exc)
    ELSE ParseFixed(wire, n.name, tsig_rdata + n.used,
                    Slice(wire, tsig_rdata + n.used, tsig_rdata + n.used + 10))

ParseMac(wire, tsig_rdata) == ParseNamed(wire, tsig_rdata, from_wire(wire, tsig_rdata))

ParseRest(wire, p) ==
    IF p.exc # "none" THEN p
    ELSE ParseTail(wire, p, Slice(wire, p.current, p.current + 6))

\* Lines 143-156.
ParseRecord(wire, tsig_rdata) == ParseRest(wire, ParseMac(wire, tsig_rdata))

\* The result of a validate call: the exception raised ("none": it returned),
\* the returned ctx, arg: the state in which the call leaves the context object
\* it was passed, our_mac: the MAC recomputed, parsed: the record passed the
\* length check of line 157, with aname and mac as read from it, and the
\* registry after the call.
ValResult(x, v, h, p, parsed) ==
    [exc |-> x, ctx |-> NoneCtx, arg |-> v.ctx, our_mac |-> <<>>, aname |-> p.aname,
     mac |-> p.mac, parsed |-> parsed, hashes |-> h]

\* The peer error raised for a nonzero error field (lines 159-169).
PeerErrorOf(error) ==
    IF error = BADSIG THEN "PeerBadSignature"
    ELSE IF error = BADKEY THEN "PeerBadKey"
    ELSE IF error = BADTIME THEN "PeerBadTime"
    ELSE IF error = BADTRUNC THEN "PeerBadTruncation"
    ELSE "PeerError"

\* The window with its bounds excluded.
OutsideWindowStrict(now, time, fudge) ==
    ~BigLess(BigSub(time, fudge), now) \/ ~BigLess(now, BigAdd(time, fudge))

\* Lines 170-172: now < time - fudge or now > time + fudge.
OutsideWindow(now, time, fudge) ==
    BigLess(now, BigSub(time, fudge)) \/ BigLess(BigAdd(time, fudge), now)

\* The message with the TSIG record left out and the count as received.
NewWireSameCount(wire, tsig_start) == Slice(wire, 0, tsig_start)

\* Lines 138-142: the message as signed, the count decremented and the TSIG
\* record left out.
NewWire(wire, tsig_start) ==
    Slice(wire, 0, 10) \o Pack16(Unpack16(Slice(wire, 10, 12)) - 1)
       \o Slice(wire, 12, tsig_start)

\* Lines 174-176: the arguments of validate's call of sign.
SignArgs(v, p) ==
    [wire |-> NewWire(v.wire, v.tsig_start), keyname |-> v.keyname, secret |-> v.secret,
     time |-> p.time, fudge |-> p.fudge, original_id |-> p.original_id,
     error |-> p.error, other_data |-> p.other_data, request_mac |-> v.request_mac,
     ctx |-> v.ctx, multi |-> v.multi, first |-> v.first, algorithm |-> NameAlg(p.aname)]

\* The context passed in returned in place of the one sign made.
CompareKeepsCtx(v, p, s) ==
    [exc |-> IF s.exc # "none" THEN s.exc
             ELSE IF s.mac # p.mac THEN "BadSignature" ELSE "none",
     ctx |-> IF s.exc = "none" /\ s.mac = p.mac THEN v.ctx ELSE NoneCtx,
     arg |-> s.arg, our_mac |-> s.mac, aname |-> p.aname, mac |-> p.mac,
     parsed |-> TRUE, hashes |-> s.hashes]

\* Lines 177-179.
Compare(v, p, s) ==
    [exc |-> IF s.exc # "none" THEN s.exc
             ELSE IF s.mac # p.mac THEN "BadSignature" ELSE "none",
     ctx |-> IF s.exc = "none" /\ s.mac = p.mac THEN s.ctx ELSE NoneCtx,
     arg |-> s.arg, our_mac |-> s.mac, aname |-> p.aname, mac |-> p.mac,
     parsed |-> TRUE, hashes |-> s.hashes]

\* The time window checked before the error field.
ChecksTimeFirst(h, e, v, p) ==
    IF p.exc # "none" THEN ValResult(p.exc, v, h, p, FALSE)
    ELSE IF p.current # v.tsig_rdata + v.tsig_rdlen THEN ValResult("FormError", v, h, p, FALSE)
    ELSE IF OutsideWindow(v.now, p.time, p.fudge) THEN ValResult("BadTime", v, h, p, TRUE)
    ELSE IF p.error # 0 THEN ValResult(PeerErrorOf(p.error), v, h, p, TRUE)
    ELSE Compare(v, p, sign(h, e, SignArgs(v, p)))

\* Lines 157-179, on the fields p read from the record.
Checks(h, e, v, p) ==
    IF p.exc # "none" THEN ValResult(p.exc, v, h, p, FALSE)
    ELSE IF p.current # v.tsig_rdata + v.tsig_rdlen THEN ValResult("FormError", v, h, p, FALSE)
    ELSE IF p.error # 0 THEN ValResult(PeerErrorOf(p.error), v, h, p, TRUE)
    ELSE IF OutsideWindow(v.now, p.time, p.fudge) THEN ValResult("BadTime", v, h, p, TRUE)
    ELSE Compare(v, p, sign(h, e, SignArgs(v, p)))

\* validate(wire, keyname, secret, now, request_mac, tsig_start, tsig_rdata,
\* tsig_rdlen, ctx, multi, first), the arguments in the record v.
validate(h, e, v) ==
    IF Len(Slice(v.wire, 10, 12)) # 2 THEN ValResult("struct.error", v, h, ParseFail(""), FALSE)
    ELSE IF Unpack16(Slice(v.wire, 10, 12)) = 0
      THEN ValResult("FormError", v, h, ParseFail(""), FALSE)
    ELSE Checks(h, e, v, ParseRecord(v.wire, v.tsig_rdata))

\* Lines 237-239.
PeekCheck(p, tsig_rdata, tsig_rdlen) ==
    IF p.exc # "none" THEN [exc |-> p.exc, aname |-> <<>>, mac |-> <<>>]
    ELSE IF p.current > tsig_rdata + tsig_rdlen
      THEN [exc |-> "FormError", aname |-> <<>>, mac |-> <<>>]
    ELSE [exc |-> "none", aname |-> p.aname, mac |-> p.mac]

\* get_algorithm_and_mac(wire, tsig_rdata, tsig_rdlen)
get_algorithm_and_mac(wire, tsig_rdata, tsig_rdlen) ==
    PeekCheck(ParseMac(wire, tsig_rdata), tsig_rdata, tsig_rdlen)

\* ---------------------------------------------------------------- the caller

\* A 12-octet DNS header: id, flags, and the four section counts, the last
\* being the additional-record count at octets [10,12).
Hdr(id, arcount) ==
    Pack16(id) \o Bytes(<<1, 0>>) \o Pack16(1) \o Pack16(0) \o Pack16(0) \o Pack16(arcount)

\* The message as sent: the TSIG record (owner name, type 250, class ANY, TTL 0,
\* rdlength, rdata) appended to the signed message and the additional count
\* incremented, with the offsets validate is given.
Attach(wire, keyname, rdata) ==
    LET owner == WireLabels(keyname)
        arcount == Unpack16(Slice(wire, 10, 12))
    IN [wire |-> Slice(wire, 0, 10) \o Pack16(arcount + 1) \o SliceFrom(wire, 12)
                   \o owner \o Pack16(250) \o Pack16(ANY) \o Pack16(0) \o Pack16(0)
                   \o Pack16(Len(rdata)) \o rdata,
        tsig_start |-> Len(wire),
        tsig_rdata |-> Len(wire) + Len(owner) + 10,
        tsig_rdlen |-> Len(rdata)]

KeyName == from_text(<<75, 101, 121, 46>>)
Secrets == {Bytes(<<11, 12>>), Bytes(<<11, 13>>)}
Secret1 == Bytes(<<11, 12>>)
Body == Bytes(<<3, 119, 119, 119, 0, 0, 1, 0, 1>>)
Messages == {Hdr(1234, 0) \o Body, Hdr(7, 255) \o Body}
Times == {[a |-> 0, b |-> 0, c |-> 1], [a |-> 0, b |-> 15258, c |-> 51712],
          [a |-> 65535, b |-> 65535, c |-> 65535]}
Fudges == {0, 300}
Errors == {0, BADSIG, BADKEY, BADTIME, BADTRUNC, 1}
Others == {<<>>, Bytes(<<9>>)}
RequestMacs == {<<>>, Bytes(<<21, 22>>)}
SignAlgs == {NameAlg(HMAC_MD5), TextAlg(TEXT_SHA256), NameAlg(HMAC_SHA1)}

GoodEnv == [provider |-> AllDigests, oldPython |-> FALSE]

SeqIdle == thr = <<>> /\ populated = FALSE /\ inp2 = NoInp /\ sres2 = NoInp

\* ---------------------------------------------------------------- sign, attach, validate

InitRT ==
    /\ pc = "start"
    /\ _hashes = HashesNone
    /\ env = GoodEnv
    /\ inp \in [wire : Messages, keyname : {KeyName}, secret : {Secret1}, time : Times,
                fudge : Fudges, original_id : {1234, 7}, error : Errors,
                other_data : Others, request_mac : RequestMacs, ctx : {NoneCtx},
                multi : BOOLEAN, first : {TRUE}, algorithm : SignAlgs]
    /\ ctx = NoneCtx
    /\ sres = NoInp /\ msg = NoInp /\ tamper = NoInp /\ vin = NoInp /\ vres = NoInp
    /\ pres = NoInp
    /\ SeqIdle

\* The signer calls sign.
DoSign ==
    /\ pc = "start"
    /\ sres' = sign(_hashes, env, inp)
    /\ _hashes' = sres'.hashes
    /\ ctx' = sres'.ctx
    /\ pc' = IF sres'.exc = "none" THEN "signed" ELSE "raised"
    /\ UNCHANGED <<env, inp, msg, tamper, vin, vres, pres, thr, populated, inp2, sres2>>

\* The record is attached and the message sent.
DoAttach ==
    /\ pc = "signed"
    /\ msg' = Attach(inp.wire, inp.keyname, sres.tsig_rdata)
    /\ pc' = "attached"
    /\ UNCHANGED <<_hashes, env, inp, ctx, sres, tamper, vin, vres, pres, thr, populated, inp2, sres2>>

\* A context the receiver may hold from an earlier message of a stream.
StreamCtx(secret) == update(update(hmac_new(secret, "MD5"), Pack16(2)), Bytes(<<31, 32>>))

\* The receiver calls validate at some time now = time + delta (delta is kept
\* beside the arguments), as the first message of a session or as a
\* continuation on a context it holds.
DoValidate ==
    /\ pc = "attached"
    /\ \E d \in {0 - inp.fudge - 1, 0 - inp.fudge, 0, inp.fudge, inp.fudge + 1},
          secret \in Secrets, first \in BOOLEAN :
          /\ vin' = [wire |-> msg.wire, keyname |-> inp.keyname, secret |-> secret,
                     now |-> BigAdd(inp.time, d), request_mac |-> inp.request_mac,
                     tsig_start |-> msg.tsig_start, tsig_rdata |-> msg.tsig_rdata,
                     tsig_rdlen |-> msg.tsig_rdlen,
                     ctx |-> IF first THEN NoneCtx ELSE StreamCtx(secret),
                     multi |-> inp.multi, first |-> first, delta |-> d]
          /\ vres' = validate(_hashes, env, vin')
    /\ _hashes' = vres'.hashes
    /\ pc' = "validated"
    /\ UNCHANGED <<env, inp, ctx, sres, msg, tamper, pres, thr, populated, inp2, sres2>>

NextRT == DoSign \/ DoAttach \/ DoValidate

Spec == InitRT /\ [][NextRT]_vars

InWindow(now, time, fudge) ==
    ~BigLess(now, BigSub(time, fudge)) /\ ~BigLess(BigAdd(time, fudge), now)

\* C1: round trip.  A message signed as first with error 0, sent with its TSIG
\* record attached, and validated as first with the same key name, secret and
\* request MAC at a time within [time - fudge, time + fudge] validates, and the
\* MAC validate recomputes is the MAC sign produced.
C1_RoundTrip ==
    (pc = "validated" /\ inp.error = 0 /\ vin.first /\ vin.secret = inp.secret
       /\ InWindow(vin.now, inp.time, inp.fudge))
      => /\ vres.exc = "none"
         /\ vres.our_mac = sres.mac
         /\ vres.mac = sres.mac

C1_Witness ==
    /\ pc = "validated" /\ inp.error = 0 /\ vin.first /\ vin.secret = inp.secret
    /\ InWindow(vin.now, inp.time, inp.fudge)
    /\ inp.time.a = 65535 /\ inp.fudge = 300 /\ inp.other_data # <<>>
    /\ inp.request_mac # <<>> /\ inp.algorithm.text
    /\ vres.exc = "none"

\* C4: for a record with error 0, validate raises BadTime exactly when now
\* lies outside [time - fudge, time + fudge], bounds included, whether or not
\* the MAC is the right one.
C4_TimeWindow ==
    (pc = "validated" /\ inp.error = 0)
      => (vres.exc = "BadTime" <=> (vin.delta < 0 - inp.fudge \/ vin.delta > inp.fudge))

\* A correctly signed record is refused one second past the window.
C4_Witness ==
    /\ pc = "validated" /\ inp.error = 0 /\ vin.first /\ vin.secret = inp.secret
    /\ inp.fudge = 300 /\ vin.delta = 301
    /\ vres.exc = "BadTime"

\* The peer error of the table, written out.
PeerTable(error) ==
    CASE error = 16 -> "PeerBadSignature"
      [] error = 17 -> "PeerBadKey"
      [] error = 18 -> "PeerBadTime"
      [] error = 22 -> "PeerBadTruncation"
      [] OTHER -> "PeerError"

\* C5: a record whose error field is nonzero makes validate raise the peer
\* error of the table, whatever now, the MAC and the secret are, before the
\* time check and with no MAC recomputed: the context passed in is left as it
\* was and the registry is not consulted.
C5_PeerErrorShortCircuit ==
    (pc = "validated" /\ inp.error # 0)
      => /\ vres.exc = PeerTable(inp.error)
         /\ vres.arg = vin.ctx
         /\ vres.our_mac = <<>>
         /\ vres.ctx = NoneCtx

\* BADTRUNC on a continuation, outside the window and under another secret.
C5_Witness ==
    /\ pc = "validated" /\ inp.error = 22 /\ ~vin.first /\ vin.ctx.open
    /\ vin.secret # inp.secret /\ vin.delta > inp.fudge
    /\ vres.exc = "PeerBadTruncation"

\* ---------------------------------------------------------------- a message altered in transit

\* s with the octet at 0-based offset i replaced by the plain octet b.
SetByte(s, i, b) == [s EXCEPT ![i + 1] = B(b)]

InitFlip ==
    /\ pc = "start"
    /\ _hashes = HashesNone
    /\ env = GoodEnv
    /\ inp \in [wire : Messages, keyname : {KeyName}, secret : {Secret1},
                time : {[a |-> 0, b |-> 15258, c |-> 51712]},
                fudge : {300}, original_id : {1234, 7}, error : {0},
                other_data : Others, request_mac : RequestMacs, ctx : {NoneCtx},
                multi : {FALSE}, first : {TRUE},
                algorithm : {NameAlg(HMAC_MD5), TextAlg(TEXT_SHA256)}]
    /\ ctx = NoneCtx
    /\ sres = NoInp /\ msg = NoInp /\ tamper = NoInp /\ vin = NoInp /\ vres = NoInp
    /\ pres = NoInp
    /\ SeqIdle

\* One octet of the signed message, before the TSIG record, is changed.
DoFlip ==
    /\ pc = "attached"
    /\ \E i \in 0..(msg.tsig_start - 1) :
         \E b \in {0, 1, 255, (Val(msg.wire[i + 1]) + 1) % 256} \ {Val(msg.wire[i + 1])} :
            /\ msg' = [msg EXCEPT !.wire = SetByte(msg.wire, i, b)]
            /\ tamper' = [at |-> i, old |-> Val(msg.wire[i + 1]), new |-> b]
    /\ pc' = "altered"
    /\ UNCHANGED <<_hashes, env, inp, ctx, sres, vin, vres, pres, thr, populated, inp2, sres2>>

\* The receiver validates the message as it arrived, as a first message, with
\* the signer's key name, secret and request MAC, at the time signed.
DoValidateSent ==
    /\ pc \in {"altered", "mangled"}
    /\ vin' = [wire |-> msg.wire, keyname |-> inp.keyname, secret |-> inp.secret,
               now |-> inp.time, request_mac |-> inp.request_mac,
               tsig_start |-> msg.tsig_start, tsig_rdata |-> msg.tsig_rdata,
               tsig_rdlen |-> msg.tsig_rdlen, ctx |-> NoneCtx,
               multi |-> inp.multi, first |-> TRUE, delta |-> 0]
    /\ vres' = validate(_hashes, env, vin')
    /\ _hashes' = vres'.hashes
    /\ pc' = "validated"
    /\ UNCHANGED <<env, inp, ctx, sres, msg, tamper, pres, thr, populated, inp2, sres2>>

NextFlip == DoSign \/ DoAttach \/ DoFlip \/ DoValidateSent

SpecFlip == InitFlip /\ [][NextFlip]_vars

\* C2, as claimed: after any one octet of the signed message is changed,
\* validate raises BadSignature.
C2_AnyFlipBadSignature ==
    pc = "validated" => vres.exc = "BadSignature"

\* C2, amended: a changed octet at offset 2 or beyond makes validate raise
\* BadSignature, unless the change makes the additional count zero, which
\* raises FormError; a changed id octet (offsets 0 and 1) goes unnoticed and
\* validate returns, the id hashed being the record's original id.
C2_FlipOutcome ==
    pc = "validated" =>
       vres.exc = IF tamper.at < 2 THEN "none"
                  ELSE IF Val(vin.wire[11]) = 0 /\ Val(vin.wire[12]) = 0 THEN "FormError"
                  ELSE "BadSignature"

\* A changed octet of the message body is caught.
C2_Witness ==
    /\ pc = "validated" /\ tamper.at >= 12 /\ vres.exc = "BadSignature"
    /\ vres.our_mac # vres.mac

\* ---------------------------------------------------------------- a malformed record

InitParse ==
    /\ pc = "start"
    /\ _hashes = HashesNone
    /\ env = GoodEnv
    /\ inp \in [wire : Messages, keyname : {KeyName}, secret : {Secret1},
                time : {[a |-> 0, b |-> 15258, c |-> 51712]},
                fudge : {300}, original_id : {1234}, error : {0, BADKEY},
                other_data : Others, request_mac : {<<>>}, ctx : {NoneCtx},
                multi : {FALSE}, first : {TRUE},
                algorithm : {NameAlg(HMAC_SHA1), TextAlg(TEXT_SHA256)}]
    /\ ctx = NoneCtx
    /\ sres = NoInp /\ msg = NoInp /\ tamper = NoInp /\ vin = NoInp /\ vres = NoInp
    /\ pres = NoInp
    /\ SeqIdle

\* The offset of the record's MAC length field, after the name and the 8
\* octets of time and fudge.
MacSizeAt(m) == m.tsig_rdata + from_wire(m.wire, m.tsig_rdata).used + 8

Mangled(kind) ==
    /\ pc' = "mangled"
    /\ tamper' = kind
    /\ UNCHANGED <<_hashes, env, inp, ctx, sres, vin, vres, pres, thr, populated, inp2, sres2>>

\* The message arrives as sent.
DoDeliver ==
    /\ pc = "attached"
    /\ msg' = msg
    /\ Mangled([kind |-> "none", n |-> 0])

\* The message arrives cut short by k octets, the record length as sent or
\* shortened alike.
DoTruncate ==
    /\ pc = "attached"
    /\ \E k \in 1..msg.tsig_rdlen, keep \in BOOLEAN :
          /\ msg' = [msg EXCEPT !.wire = SubSeq(msg.wire, 1, Len(msg.wire) - k),
                                !.tsig_rdlen = IF keep THEN @ ELSE @ - k]
          /\ Mangled([kind |-> IF keep THEN "cut" ELSE "cut, rdlen too", n |-> k])

\* validate is given another record length.
DoRdlen ==
    /\ pc = "attached"
    /\ \E d \in {-7, -1, 1} :
          /\ msg' = [msg EXCEPT !.tsig_rdlen = @ + d]
          /\ Mangled([kind |-> "rdlen", n |-> d])

\* The record's MAC length field holds another value.
DoMacSize ==
    /\ pc = "attached"
    /\ \E n \in {0, DigestLen - 1, DigestLen + 1, DigestLen + 6, 300} :
          /\ msg' = [msg EXCEPT !.wire = SetByte(SetByte(msg.wire, MacSizeAt(msg), n \div 256),
                                                 MacSizeAt(msg) + 1, n % 256)]
          /\ Mangled([kind |-> "mac_size", n |-> n])

\* The record's other length field holds another value.
DoOtherSize ==
    /\ pc = "attached"
    /\ \E n \in {Len(inp.other_data) + 1, 300} :
          /\ msg' = [msg EXCEPT !.wire =
                        SetByte(SetByte(msg.wire, MacSizeAt(msg) + 2 + DigestLen + 4, n \div 256),
                                MacSizeAt(msg) + 2 + DigestLen + 5, n % 256)]
          /\ Mangled([kind |-> "other_size", n |-> n])

\* The header's additional count is zero.
DoZeroCount ==
    /\ pc = "attached"
    /\ msg' = [msg EXCEPT !.wire = SetByte(SetByte(msg.wire, 10, 0), 11, 0)]
    /\ Mangled([kind |-> "adcount", n |-> 0])

\* get_algorithm_and_mac on the buffer validate was given.
DoPeek ==
    /\ pc = "validated"
    /\ pres' = get_algorithm_and_mac(vin.wire, vin.tsig_rdata, vin.tsig_rdlen)
    /\ pc' = "peeked"
    /\ UNCHANGED <<_hashes, env, inp, ctx, sres, msg, tamper, vin, vres, thr, populated, inp2, sres2>>

NextParse ==
    \/ DoSign \/ DoAttach
    \/ DoDeliver \/ DoTruncate \/ DoRdlen \/ DoMacSize \/ DoOtherSize \/ DoZeroCount
    \/ DoValidateSent \/ DoPeek

SpecParse == InitParse /\ [][NextParse]_vars

\* C7: when the additional count is 0, or the fields of the record (name, time,
\* fudge, MAC length and MAC, original id, error, other length and other data)
\* do not take exactly tsig_rdlen octets, a MAC length or other length that
\* points past the end of the buffer included, validate raises FormError, and
\* then neither a peer error nor BadTime nor a recomputed MAC.  (Stated for
\* records whose name, time, fudge and MAC length can be read.)
C7_LengthCheckFormError ==
    pc \in {"validated", "peeked"} =>
       /\ (Val(vin.wire[11]) = 0 /\ Val(vin.wire[12]) = 0) => vres.exc = "FormError"
       /\ ( /\ ~(Val(vin.wire[11]) = 0 /\ Val(vin.wire[12]) = 0)
            /\ ParseMac(vin.wire, vin.tsig_rdata).exc = "none"
            /\ \/ ParseRecord(vin.wire, vin.tsig_rdata).exc # "none"
               \/ ParseRecord(vin.wire, vin.tsig_rdata).current # vin.tsig_rdata + vin.tsig_rdlen )
          => /\ vres.exc = "FormError"
             /\ vres.our_mac = <<>>
             /\ vres.arg = vin.ctx

\* C9: get_algorithm_and_mac returns the name and MAC validate read from every
\* record validate parsed without FormError, and raises FormError whenever the
\* name, the 10 fixed octets and the MAC reach beyond tsig_rdata + tsig_rdlen.
C9_PeekAgreesWithValidate ==
    pc = "peeked" =>
       /\ vres.parsed => /\ pres.exc = "none"
                         /\ pres.aname = vres.aname
                         /\ pres.mac = vres.mac
       /\ ( /\ from_wire(vin.wire, vin.tsig_rdata).exc = "none"
            /\ \/ from_wire(vin.wire, vin.tsig_rdata).used + 10 > vin.tsig_rdlen
               \/ /\ ParseMac(vin.wire, vin.tsig_rdata).exc = "none"
                  /\ ParseMac(vin.wire, vin.tsig_rdata).current > vin.tsig_rdata + vin.tsig_rdlen )
          => pres.exc = "FormError"

\* ---------------------------------------------------------------- a stream of two messages

PendingV == [exc |-> "pending"]

InitChain ==
    /\ pc = "start"
    /\ _hashes = HashesNone
    /\ env = GoodEnv
    /\ inp \in [wire : Messages, keyname : {KeyName}, secret : {Secret1},
                time : {[a |-> 0, b |-> 15258, c |-> 51712]},
                fudge : {300}, original_id : {1234}, error : {0},
                other_data : {<<>>}, request_mac : RequestMacs, ctx : {NoneCtx},
                multi : {TRUE}, first : {TRUE},
                algorithm : {NameAlg(HMAC_MD5), TextAlg(TEXT_SHA256)}]
    /\ inp2 \in [wire : Messages, keyname : {KeyName}, secret : {Secret1},
                 time : {[a |-> 0, b |-> 15258, c |-> 51717]},
                 fudge : {300}, original_id : {1234}, error : {0},
                 other_data : Others, request_mac : {<<>>}, ctx : {NoneCtx},
                 multi : BOOLEAN, first : {FALSE}, algorithm : {inp.algorithm}]
    /\ ctx = NoneCtx
    /\ sres = NoInp /\ sres2 = NoInp /\ msg = NoInp /\ tamper = NoInp /\ vin = NoInp
    /\ vres = [m1 |-> PendingV, m2 |-> PendingV, alone |-> PendingV]
    /\ pres = NoInp
    /\ thr = <<>> /\ populated = FALSE

\* The signer signs the second message on the context the first sign returned.
ChainSign2 ==
    /\ pc = "signed"
    /\ inp2' = [inp2 EXCEPT !.ctx = ctx]
    /\ sres2' = sign(_hashes, env, inp2')
    /\ _hashes' = sres2'.hashes
    /\ ctx' = sres2'.ctx
    /\ pc' = "signed2"
    /\ UNCHANGED <<env, inp, sres, msg, tamper, vin, vres, pres, thr, populated>>

\* Both messages are sent with their records attached.
ChainAttach ==
    /\ pc = "signed2"
    /\ msg' = [m1 |-> Attach(inp.wire, inp.keyname, sres.tsig_rdata),
               m2 |-> Attach(inp2.wire, inp2.keyname, sres2.tsig_rdata)]
    /\ pc' = "sent"
    /\ UNCHANGED <<_hashes, env, inp, ctx, sres, inp2, sres2, tamper, vin, vres, pres, thr,
                   populated>>

ValArgs(m, a, request_mac, c, multi, first) ==
    [wire |-> m.wire, keyname |-> a.keyname, secret |-> a.secret, now |-> a.time,
     request_mac |-> request_mac, tsig_start |-> m.tsig_start,
     tsig_rdata |-> m.tsig_rdata, tsig_rdlen |-> m.tsig_rdlen, ctx |-> c,
     multi |-> multi, first |-> first, delta |-> 0]

\* The receiver validates the first message, as first of several.
ChainValidate1 ==
    /\ pc = "sent"
    /\ vres' = [vres EXCEPT !.m1 =
                   validate(_hashes, env,
                            ValArgs(msg.m1, inp, inp.request_mac, NoneCtx, TRUE, TRUE))]
    /\ _hashes' = vres'.m1.hashes
    /\ pc' = "valid1"
    /\ UNCHANGED <<env, inp, ctx, sres, inp2, sres2, msg, tamper, vin, pres, thr, populated>>

\* The receiver validates the second message on the context validate returned.
ChainValidate2 ==
    /\ pc = "valid1"
    /\ vres' = [vres EXCEPT !.m2 =
                   validate(_hashes, env,
                            ValArgs(msg.m2, inp2, inp.request_mac, vres.m1.ctx,
                                    inp2.multi, FALSE))]
    /\ _hashes' = vres'.m2.hashes
    /\ pc' = "valid2"
    /\ UNCHANGED <<env, inp, ctx, sres, inp2, sres2, msg, tamper, vin, pres, thr, populated>>

\* The second message is validated on its own, as a first message, on a
\* context freshly opened, with no request MAC, the session's request MAC or
\* the first message's MAC as request MAC.
ChainValidateAlone ==
    /\ pc \in {"sent", "valid1", "valid2"}
    /\ vres.alone.exc = "pending"
    /\ \E r \in {<<>>, inp.request_mac, sres.mac}, multi \in BOOLEAN :
          /\ vin' = ValArgs(msg.m2, inp2, r, hmac_new(inp2.secret, sres.hctx.mod), multi, TRUE)
          /\ vres' = [vres EXCEPT !.alone = validate(_hashes, env, vin')]
    /\ _hashes' = vres'.alone.hashes
    /\ UNCHANGED <<pc, env, inp, ctx, sres, inp2, sres2, msg, tamper, pres, thr, populated>>

NextChain ==
    \/ DoSign \/ ChainSign2 \/ ChainAttach
    \/ ChainValidate1 \/ ChainValidate2 \/ ChainValidateAlone

SpecChain == InitChain /\ [][NextChain]_vars

\* C3: with message 1 signed as first of several and message 2 signed on the
\* context that returned, validating message 1 as first of several and then
\* message 2 on the context validate returned succeeds; validating message 2
\* on its own as a first message raises BadSignature.
C3_Chaining ==
    /\ pc = "valid2" => /\ vres.m1.exc = "none"
                        /\ vres.m2.exc = "none"
                        /\ vres.m2.our_mac = sres2.mac
                        /\ vres.m1.ctx = inp2.ctx
    /\ vres.alone.exc # "pending" => vres.alone.exc = "BadSignature"

C3_Witness ==
    /\ pc = "valid2" /\ vres.m2.exc = "none" /\ inp2.multi /\ vres.m2.ctx.open
    /\ inp2.wire # inp.wire
    /\ vres.alone.exc = "BadSignature" /\ vin.request_mac = sres.mac

\* ---------------------------------------------------------------- two calls of sign

Zeros(n) == [i \in 1..n |-> B(0)]

CanonicalName(algorithm) ==
    LowerLabels(IF algorithm.text THEN from_text(algorithm.val) ELSE algorithm.val)

InitSign ==
    /\ pc = "start"
    /\ _hashes = HashesNone
    /\ env = GoodEnv
    /\ \E first \in BOOLEAN :
         inp \in {a \in [wire : Messages, keyname : {KeyName}, secret : {Secret1},
                         time : {[a |-> 0, b |-> 15258, c |-> 51712],
                                 [a |-> 65535, b |-> 65535, c |-> 65535]},
                         fudge : Fudges, original_id : {1234}, error : {0, BADSIG},
                         other_data : Others \cup {Zeros(65535), Zeros(65536)},
                         request_mac : RequestMacs,
                         ctx : {IF first THEN NoneCtx ELSE StreamCtx(Secret1)},
                         multi : BOOLEAN, first : {first}, algorithm : SignAlgs] :
                    Len(a.other_data) > 1 =>
                       /\ a.fudge = 300 /\ a.time.a = 0 /\ a.error = 0 /\ a.multi
                       /\ a.request_mac = <<>> /\ a.algorithm = NameAlg(HMAC_SHA1)
                       /\ Val(a.wire[1]) = 0}
    /\ ctx = NoneCtx
    /\ sres = NoInp /\ msg = NoInp /\ tamper = NoInp /\ vin = NoInp /\ vres = NoInp
    /\ pres = NoInp
    /\ SeqIdle

\* sign is called again from an equal context state, with another algorithm
\* name, error or other_data.
DoSignAgain ==
    /\ pc = "signed"
    /\ \E alg \in SignAlgs, error \in {0, BADSIG}, other_data \in Others :
          /\ \/ CanonicalName(alg) # CanonicalName(inp.algorithm)
             \/ error # inp.error
             \/ other_data # inp.other_data
          /\ inp2' = [inp EXCEPT !.algorithm = alg, !.error = error, !.other_data = other_data]
          /\ sres2' = sign(_hashes, env, inp2')
    /\ _hashes' = sres2'.hashes
    /\ pc' = "signed2"
    /\ UNCHANGED <<env, inp, ctx, sres, msg, tamper, vin, vres, pres, thr, populated>>

NextSign == DoSign \/ DoSignAgain

SpecSign == InitSign /\ [][NextSign]_vars

\* C6: sign with other_data longer than 65535 octets raises ValueError and
\* returns nothing, first or not; and whenever sign returns, the other length
\* field of the rdata is the length of other_data and other_data ends the
\* rdata in full.
C6_OtherDataLimit ==
    pc # "start" =>
       /\ Len(inp.other_data) > 65535 =>
             /\ sres.exc = "ValueError"
             /\ sres.tsig_rdata = <<>> /\ sres.mac = <<>> /\ sres.ctx = NoneCtx
       /\ sres.exc = "none" =>
             /\ Len(inp.other_data) <= 65535
             /\ Unpack16(SubSeq(sres.tsig_rdata,
                                Len(sres.tsig_rdata) - Len(inp.other_data) - 1,
                                Len(sres.tsig_rdata) - Len(inp.other_data)))
                  = Len(inp.other_data)
             /\ SubSeq(sres.tsig_rdata, Len(sres.tsig_rdata) - Len(inp.other_data) + 1,
                       Len(sres.tsig_rdata)) = inp.other_data

\* 65536 octets are refused on a continuation, 65535 are signed.
C6_Witness ==
    /\ pc = "raised" /\ ~inp.first /\ Len(inp.other_data) = 65536
    /\ sres.exc = "ValueError"

\* C10: on a continuation (first false) the octets fed to the context passed in
\* are the 2 octets of the original id, the message from offset 2 and the 8
\* octets of time and fudge, in that order, and nothing else; so a second
\* continuation call from an equal context state that differs in algorithm
\* name, error or other_data returns the same MAC, while with first true such
\* a difference changes the octets hashed.
C10_ContinuationHashedSubset ==
    /\ (pc \in {"signed", "signed2"} /\ ~inp.first) =>
          /\ sres.hctx.fed = inp.ctx.fed
                \o <<B(inp.original_id \div 256), B(inp.original_id % 256)>>
                \o SubSeq(inp.wire, 3, Len(inp.wire))
                \o <<B(inp.time.a \div 256), B(inp.time.a % 256),
                     B(inp.time.b \div 256), B(inp.time.b % 256),
                     B(inp.time.c \div 256), B(inp.time.c % 256),
                     B(inp.fudge \div 256), B(inp.fudge % 256)>>
          /\ sres.arg = sres.hctx
    /\ (pc = "signed2" /\ ~inp.first /\ sres2.exc = "none") => sres2.mac = sres.mac
    /\ (pc = "signed2" /\ inp.first /\ sres2.exc = "none") =>
          /\ sres2.hctx.fed # sres.hctx.fed
          /\ sres2.mac # sres.mac

C10_Witness ==
    /\ pc = "signed2" /\ ~inp.first /\ sres2.exc = "none"
    /\ CanonicalName(inp2.algorithm) # CanonicalName(inp.algorithm)
    /\ inp2.error # inp.error /\ inp2.other_data # inp.other_data
    /\ sres2.mac = sres.mac /\ sres2.tsig_rdata # sres.tsig_rdata

\* ---------------------------------------------------------------- registry, concurrent

Threads == 1..NumThreads

\* What the sequential specifications leave alone.
RegIdle == /\ inp = NoInp /\ ctx = NoInp /\ sres = NoInp /\ msg = NoInp /\ tamper = NoInp
           /\ vin = NoInp /\ vres = NoInp /\ pres = NoInp /\ inp2 = NoInp /\ sres2 = NoInp

InitReg ==
    /\ pc = "reg"
    /\ _hashes = HashesNone
    /\ env \in {[provider |-> AllDigests, oldPython |-> FALSE],
                 [provider |-> AllDigests \ {"SHA224"}, oldPython |-> TRUE]}
    /\ thr = [t \in Threads |-> [pc |-> "idle", alg |-> NameAlg(HMAC_MD5), i |-> 0,
                                  ret |-> Pending, calls |-> 0]]
    /\ populated = FALSE
    /\ RegIdle

RegFrame == UNCHANGED <<pc, env, inp, ctx, sres, inp2, sres2, msg, tamper, vin, vres, pres>>

\* A thread enters get_algorithm(algorithm).
Call(t) ==
    /\ thr[t].pc = "idle"
    /\ thr[t].calls < MaxCalls
    /\ \E a \in AlgIds :
          thr' = [thr EXCEPT ![t] = [@ EXCEPT !.pc = "check", !.alg = a, !.ret = Pending]]
    /\ UNCHANGED <<_hashes, populated>>
    /\ RegFrame

\* `if _hashes is None:` (line 208).
CheckNone(t) ==
    /\ thr[t].pc = "check"
    /\ thr' = [thr EXCEPT ![t].pc = IF _hashes.none THEN "reset" ELSE "lookup"]
    /\ UNCHANGED <<_hashes, populated>>
    /\ RegFrame

\* `_hashes = {}` (line 191).
Reset(t) ==
    /\ thr[t].pc = "reset"
    /\ _hashes' = HashesDict({})
    /\ thr' = [thr EXCEPT ![t] = [@ EXCEPT !.pc = "add", !.i = 1]]
    /\ UNCHANGED populated
    /\ RegFrame

\* One _maybe_add_hash call of _setup_hashes (lines 192-197), on the dict the
\* global names at that moment.
AddHash(t) ==
    /\ thr[t].pc = "add"
    /\ LET i == thr[t].i
       IN /\ _hashes' = _maybe_add_hash(_hashes, env.provider, SetupOrder[i][1], SetupOrder[i][2])
          /\ thr' = [thr EXCEPT ![t] = [@ EXCEPT !.i = i + 1,
                           !.pc = IF i = Len(SetupOrder) THEN "lookup" ELSE "add"]]
          /\ populated' = (populated \/ i = Len(SetupOrder))
    /\ RegFrame

\* Lines 211-223: the lookup, and the return or NotImplementedError.
Return(t) ==
    /\ thr[t].pc = "lookup"
    /\ thr' = [thr EXCEPT ![t] = [@ EXCEPT !.pc = "idle", !.calls = @ + 1,
                                   !.ret = Lookup(_hashes, env, thr[t].alg)]]
    /\ UNCHANGED <<_hashes, populated>>
    /\ RegFrame

NextReg == \E t \in Threads : Call(t) \/ CheckNone(t) \/ Reset(t) \/ AddHash(t) \/ Return(t)

SpecReg == InitReg /\ [][NextReg]_vars

\* The digest the provider must hold for an identifier, "" for none.
DigestOf(algorithm) ==
    LET name == LowerLabels(IF algorithm.text THEN from_text(algorithm.val) ELSE algorithm.val)
    IN IF \E i \in 1..Len(SetupOrder) : LowerLabels(SetupOrder[i][1]) = name
         THEN SetupOrder[CHOOSE i \in 1..Len(SetupOrder) : LowerLabels(SetupOrder[i][1]) = name][2]
       ELSE ""

\* An identifier a lone caller's get_algorithm resolves.
Supported(e, algorithm) ==
    /\ DigestOf(algorithm) \in e.provider
    /\ ~(e.oldPython /\ DigestOf(algorithm) \in {"SHA384", "SHA512"})

\* C8: with several threads in get_algorithm while _hashes is uninitialised,
\* every finished call for a supported algorithm returned its pair, and once a
\* setup has completed the registry stays the complete registry.
C8_RegistryInitRaceFree ==
    /\ \A t \in Threads :
          (thr[t].ret.exc # "pending" /\ Supported(env, thr[t].alg))
             => /\ thr[t].ret.exc = "none"
                /\ thr[t].ret.mod = DigestOf(thr[t].alg)
    /\ populated => _hashes = _setup_hashes(env.provider)

====
